---- MODULE Spec2Model ----
(***************************************************************************)
(* gh-semver: the next semantic version of a git repository, from the      *)
(* latest tag reachable in the commit graph and the conventional-commit    *)
(* classification of the commits walked before it.                         *)
(*                                                                         *)
(* Strings are sequences of one-character strings, so that formatting,     *)
(* parsing and regular-expression matching are computed.                   *)
(***************************************************************************)
EXTENDS Integers, Sequences, FiniteSets

(***************************************************************************)
(* Characters and the character classes of Go's regexp syntax.             *)
(***************************************************************************)
Digit == {"0", "1", "2", "3", "4", "5", "6", "7", "8", "9"}

Lower == {"a", "b", "c", "d", "e", "f", "g", "h", "i", "j", "k", "l", "m",
          "n", "o", "p", "q", "r", "s", "t", "u", "v", "w", "x", "y", "z"}

Upper == {"A", "B", "C", "D", "E", "F", "G", "H", "I", "J", "K", "L", "M",
          "N", "O", "P", "Q", "R", "S", "T", "U", "V", "W", "X", "Y", "Z"}

\* \d
IsDigit(c) == c \in Digit

\* \w
IsWord(c) == c \in Digit \cup Lower \cup Upper \cup {"_"}

\* . (any character but a line feed)
IsDot(c) == c /= "\n"

\* [^0-9A-Za-z], the characters SemVer.Print strips from a branch name
branchStripCharacters(c) == c \notin Digit \cup Lower \cup Upper

DigitVal(c) ==
  CASE c = "0" -> 0 [] c = "1" -> 1 [] c = "2" -> 2 [] c = "3" -> 3
    [] c = "4" -> 4 [] c = "5" -> 5 [] c = "6" -> 6 [] c = "7" -> 7
    [] c = "8" -> 8 [] c = "9" -> 9

DigitChar(d) ==
  CASE d = 0 -> "0" [] d = 1 -> "1" [] d = 2 -> "2" [] d = 3 -> "3"
    [] d = 4 -> "4" [] d = 5 -> "5" [] d = 6 -> "6" [] d = 7 -> "7"
    [] d = 8 -> "8" [] d = 9 -> "9"

\* strings.HasPrefix
HasPrefix(s, p) == Len(s) >= Len(p) /\ SubSeq(s, 1, Len(p)) = p

\* s[from .. ] with 1-based positions
Tail2(s, from) == SubSeq(s, from, Len(s))

Max(S) == CHOOSE x \in S : \A y \in S : y <= x

Min(S) == CHOOSE x \in S : \A y \in S : x <= y

(***************************************************************************)
(* strconv.ParseUint(s, 10, 32) and the %d verb of fmt.Sprintf.            *)
(***************************************************************************)
RECURSIVE StripZeros(_)
StripZeros(s) ==
  IF Len(s) > 1 /\ s[1] = "0" THEN StripZeros(Tail(s)) ELSE s

\* The digits of 2^32 - 1, the largest value of bit size 32.
MaxUint32Digits == <<"4", "2", "9", "4", "9", "6", "7", "2", "9", "5">>

RECURSIVE LexLeq(_, _)
LexLeq(a, b) ==
  IF a = <<>> THEN TRUE
  ELSE IF DigitVal(a[1]) < DigitVal(b[1]) THEN TRUE
  ELSE IF DigitVal(a[1]) > DigitVal(b[1]) THEN FALSE
  ELSE LexLeq(Tail(a), Tail(b))

RECURSIVE DigitsValue(_)
DigitsValue(s) ==
  IF s = <<>> THEN 0
  ELSE 10 * DigitsValue(SubSeq(s, 1, Len(s) - 1)) + DigitVal(s[Len(s)])

\* [ok, val]: ok is FALSE on a syntax or range error.
ParseDigits(t) ==
  IF Len(t) > Len(MaxUint32Digits)
     \/ (Len(t) = Len(MaxUint32Digits) /\ ~LexLeq(t, MaxUint32Digits))
  THEN [ok |-> FALSE, val |-> 0]
  ELSE [ok |-> TRUE, val |-> DigitsValue(t)]

ParseUint(s) ==
  IF s = <<>> \/ \E i \in 1..Len(s) : ~IsDigit(s[i])
  THEN [ok |-> FALSE, val |-> 0]
  ELSE ParseDigits(StripZeros(s))

RECURSIVE FormatUint(_)
FormatUint(n) ==
  IF n < 10 THEN <<DigitChar(n)>>
  ELSE Append(FormatUint(n \div 10), DigitChar(n % 10))

(***************************************************************************)
(* The SemVer value type.  A nil *SemVerExtended is NilExt; a nil *SemVer  *)
(* is NilSemVer.                                                           *)
(***************************************************************************)
NilExt == [nil |-> TRUE, Branch |-> <<>>, CommitDistance |-> 0, CommitHash |-> <<>>]

SemVerExtended(branch, commitDistance, commitHash) ==
  [nil |-> FALSE, Branch |-> branch, CommitDistance |-> commitDistance,
   CommitHash |-> commitHash]

NilSemVer ==
  [nil |-> TRUE, Prefix |-> <<>>, LeadingV |-> <<>>, Major |-> 0, Minor |-> 0,
   Patch |-> 0, Ext |-> NilExt]

NewSemVer(major, minor, patch) ==
  [nil |-> FALSE, Prefix |-> <<>>, LeadingV |-> <<>>, Major |-> major,
   Minor |-> minor, Patch |-> patch, Ext |-> NilExt]

(***************************************************************************)
(* ParseSemVer's regular expression                                        *)
(*   (.+-)?(v)?(\d+)\.(\d+)\.(\d+)(-(\w+)\.(\d+)\.(\w+))?                  *)
(* matched as regexp.FindStringSubmatch matches it: unanchored, the        *)
(* leftmost match, and among the matches that start there the one a        *)
(* backtracking matcher prefers (greedy operators take the most first).    *)
(* Positions are 1-based.                                                  *)
(***************************************************************************)
\* The position after the longest run of digits that starts at p.
DigitRunEnd(s, p) ==
  Max({e \in p..(Len(s) + 1) : \A k \in p..(e - 1) : IsDigit(s[k])})

\* The position after the longest run of word characters that starts at p.
WordRunEnd(s, p) ==
  Max({e \in p..(Len(s) + 1) : \A k \in p..(e - 1) : IsWord(s[k])})

NoCore == [ok |-> FALSE, major |-> <<>>, minor |-> <<>>, patch |-> <<>>, end |-> 0]

\* (\d+)\.(\d+)\.(\d+) at position p.  A run of digits followed by a literal
\* dot can only be the longest run, so no shorter run is tried.  e1, e2 and
\* e3 are the positions after the runs of major, minor and patch.
CoreAfterPatch(s, p, e1, e2, e3) ==
  IF ~(e3 > e2 + 1) THEN NoCore
  ELSE [ok |-> TRUE, major |-> SubSeq(s, p, e1 - 1),
        minor |-> SubSeq(s, e1 + 1, e2 - 1),
        patch |-> SubSeq(s, e2 + 1, e3 - 1), end |-> e3]

CoreAfterMinor(s, p, e1, e2) ==
  IF ~(e2 > e1 + 1 /\ e2 <= Len(s) /\ s[e2] = ".") THEN NoCore
  ELSE CoreAfterPatch(s, p, e1, e2, DigitRunEnd(s, e2 + 1))

CoreAfterMajor(s, p, e1) ==
  IF ~(e1 > p /\ e1 <= Len(s) /\ s[e1] = ".") THEN NoCore
  ELSE CoreAfterMinor(s, p, e1, DigitRunEnd(s, e1 + 1))

CoreAt(s, p) == CoreAfterMajor(s, p, DigitRunEnd(s, p))

NoExtended ==
  [ok |-> FALSE, branch |-> <<>>, commit_distance |-> <<>>, commit_hash |-> <<>>]

\* (-(\w+)\.(\d+)\.(\w+))? at position p; not ok is the empty match.  w1, d
\* and w2 are the positions after the runs of branch, distance and hash.
ExtendedAfterHash(s, p, w1, d, w2) ==
  IF ~(w2 > d + 1) THEN NoExtended
  ELSE [ok |-> TRUE, branch |-> SubSeq(s, p + 1, w1 - 1),
        commit_distance |-> SubSeq(s, w1 + 1, d - 1),
        commit_hash |-> SubSeq(s, d + 1, w2 - 1)]

ExtendedAfterDistance(s, p, w1, d) ==
  IF ~(d > w1 + 1 /\ d <= Len(s) /\ s[d] = ".") THEN NoExtended
  ELSE ExtendedAfterHash(s, p, w1, d, WordRunEnd(s, d + 1))

ExtendedAfterBranch(s, p, w1) ==
  IF ~(w1 > p + 1 /\ w1 <= Len(s) /\ s[w1] = ".") THEN NoExtended
  ELSE ExtendedAfterDistance(s, p, w1, DigitRunEnd(s, w1 + 1))

ExtendedAt(s, p) ==
  IF ~(p <= Len(s) /\ s[p] = "-") THEN NoExtended
  ELSE ExtendedAfterBranch(s, p, WordRunEnd(s, p + 1))

\* (v)? then the core at position p: the v is taken when it is there.
VCore(s, p, withV, withoutV) ==
  IF p <= Len(s) /\ s[p] = "v" /\ withV.ok
  THEN [v |-> TRUE, core |-> withV]
  ELSE [v |-> FALSE, core |-> withoutV]

VCoreAt(s, p) == VCore(s, p, CoreAt(s, p + 1), CoreAt(s, p))

\* The positions of a "-" that can end (.+-) started at i, after which the
\* rest of the expression matches.
PrefixEnds(s, i) ==
  {j \in (i + 1)..Len(s) :
     /\ s[j] = "-"
     /\ \A k \in i..(j - 1) : IsDot(s[k])
     /\ VCoreAt(s, j + 1).core.ok}

\* The preferred match that starts at i: the longest prefix group after
\* which the rest matches, else no prefix group.
MatchWithPrefix(s, i, ends) ==
  IF ends /= {}
  THEN [prefix |-> SubSeq(s, i, Max(ends)), vc |-> VCoreAt(s, Max(ends) + 1)]
  ELSE [prefix |-> <<>>, vc |-> VCoreAt(s, i)]

MatchAt(s, i) == MatchWithPrefix(s, i, PrefixEnds(s, i))

NoMatch ==
  [ok |-> FALSE, prefix |-> <<>>, v |-> FALSE, core |-> NoCore,
   extended |-> NoExtended]

Submatch(s, m) ==
  [ok |-> TRUE, prefix |-> m.prefix, v |-> m.vc.v, core |-> m.vc.core,
   extended |-> ExtendedAt(s, m.vc.core.end)]

MatchFrom(s, starts) ==
  IF starts = {} THEN NoMatch ELSE Submatch(s, MatchAt(s, Min(starts)))

\* [ok] and the named groups; not ok is the nil slice of no match.
FindStringSubmatch(s) ==
  MatchFrom(s, {i \in 1..Len(s) : MatchAt(s, i).vc.core.ok})

ParseOk(sv) == [kind |-> "ok", err |-> "", semver |-> sv]

ParseErr(what) == [kind |-> "error", err |-> what, semver |-> NilSemVer]

\* Indexing the nil slice of a failed match: a run-time panic.
ParsePanic == [kind |-> "panic", err |-> "index out of range", semver |-> NilSemVer]

\* ParseSemVer, lines 60-92, on the groups m and the numbers parsed from them.
ParseGroups(m, major, minor, patch, commitDistance) ==
  IF ~major.ok THEN ParseErr("major")
  ELSE IF ~minor.ok THEN ParseErr("minor")
  ELSE IF ~patch.ok THEN ParseErr("patch")
  ELSE IF ~m.extended.ok
  THEN ParseOk([NewSemVer(major.val, minor.val, patch.val)
                  EXCEPT !.LeadingV = IF m.v THEN <<"v">> ELSE <<>>])
  ELSE IF ~commitDistance.ok THEN ParseErr("commit distance")
  ELSE ParseOk([NewSemVer(major.val, minor.val, patch.val)
                  EXCEPT !.LeadingV = IF m.v THEN <<"v">> ELSE <<>>,
                         !.Ext = SemVerExtended(m.extended.branch,
                                                commitDistance.val,
                                                m.extended.commit_hash)])

ParseMatch(m) ==
  IF ~m.ok THEN ParsePanic
  ELSE ParseGroups(m, ParseUint(m.core.major), ParseUint(m.core.minor),
                   ParseUint(m.core.patch),
                   ParseUint(m.extended.commit_distance))

ParseSemVer(input) == ParseMatch(FindStringSubmatch(input))

GreaterThan(s, other) ==
  \/ s.Major > other.Major
  \/ (s.Major = other.Major /\ s.Minor > other.Minor)
  \/ (s.Major = other.Major /\ s.Minor = other.Minor /\ s.Patch > other.Patch)

SameBranch(s, other) ==
  ~s.Ext.nil /\ ~other.Ext.nil /\ s.Ext.Branch = other.Ext.Branch

IncMajor(s) == [s EXCEPT !.Major = s.Major + 1, !.Minor = 0, !.Patch = 0]

\* A variant that keeps the patch number.
IncMinorKeepPatch(s) == [s EXCEPT !.Minor = s.Minor + 1]

IncMinor(s) == [s EXCEPT !.Minor = s.Minor + 1, !.Patch = 0]

IncPatch(s) == [s EXCEPT !.Patch = s.Patch + 1]

\* The extended information a setter finds or allocates.
ExtOrNew(s) == IF s.Ext.nil THEN SemVerExtended(<<>>, 0, <<>>) ELSE s.Ext

SetBranch(s, branch) == [s EXCEPT !.Ext = [ExtOrNew(s) EXCEPT !.Branch = branch]]

SetCommitDistance(s, commitDistance) ==
  [s EXCEPT !.Ext = [ExtOrNew(s) EXCEPT !.CommitDistance = commitDistance]]

\* A variant that keeps the whole hash.
SetCommitHashFull(s, commitHash) ==
  [s EXCEPT !.Ext = [ExtOrNew(s) EXCEPT !.CommitHash = commitHash]]

\* The first seven characters of a hash of seven or more.
ShortHashLen == 7

SetCommitHash(s, commitHash) ==
  [s EXCEPT !.Ext = [ExtOrNew(s) EXCEPT !.CommitHash =
     IF Len(commitHash) >= ShortHashLen THEN SubSeq(commitHash, 1, ShortHashLen)
     ELSE commitHash]]

\* regexp.ReplaceAllString(branch, "") with [^0-9A-Za-z]
RECURSIVE StripBranch(_)
StripBranch(b) ==
  IF b = <<>> THEN <<>>
  ELSE IF branchStripCharacters(b[1]) THEN StripBranch(Tail(b))
  ELSE <<b[1]>> \o StripBranch(Tail(b))

\* "%s%d.%d.%d"
PrintCore(s) ==
  s.LeadingV \o FormatUint(s.Major) \o <<".">> \o FormatUint(s.Minor)
    \o <<".">> \o FormatUint(s.Patch)

\* SemVer.Print
SemVerPrint(s, release) ==
  LET version ==
        IF release \/ s.Ext.nil THEN PrintCore(s)
        ELSE PrintCore(s) \o <<"-">> \o StripBranch(s.Ext.Branch) \o <<".">>
               \o FormatUint(s.Ext.CommitDistance) \o <<".">> \o s.Ext.CommitHash
  IN IF s.Prefix /= <<>> THEN s.Prefix \o <<"-">> \o version ELSE version

(***************************************************************************)
(* The conventional-commit classifier: regexp.MatchString of the three     *)
(* expressions NewConventionalCommits compiles.  "^" is the start of the   *)
(* text, "." is any character but a line feed, and an alternation binds    *)
(* weaker than "^".                                                        *)
(***************************************************************************)
sFix == <<"f", "i", "x">>

sFeat == <<"f", "e", "a", "t">>

sColon == <<":", " ">>

sBangColon == <<"!", ":", " ">>

sBreaking ==
  <<"B", "R", "E", "A", "K", "I", "N", "G", " ", "C", "H", "A", "N", "G", "E", ":", " ">>

\* The literal lit at position p of s.
LitAt(s, p, lit) ==
  p + Len(lit) - 1 <= Len(s) /\ SubSeq(s, p, p + Len(lit) - 1) = lit

\* (\(.+\))? then the literal lit, at position p.
ScopeThenLit(s, p, lit) ==
  \/ LitAt(s, p, lit)
  \/ /\ p <= Len(s)
     /\ s[p] = "("
     /\ \E j \in (p + 2)..Len(s) :
          /\ s[j] = ")"
          /\ \A k \in (p + 1)..(j - 1) : IsDot(s[k])
          /\ LitAt(s, j + 1, lit)

\* A variant with both alternatives anchored at the start.
majorRegexAnchored(msg) ==
  \/ LitAt(msg, 1, sFix) /\ ScopeThenLit(msg, Len(sFix) + 1, sBangColon)
  \/ LitAt(msg, 1, sFeat) /\ ScopeThenLit(msg, Len(sFeat) + 1, sBangColon)
  \/ LitAt(msg, 1, sBreaking)

\* ^(fix|feat)(\(.+\))?!: |BREAKING CHANGE: 
majorRegex(msg) ==
  \/ \E kw \in {sFix, sFeat} :
       LitAt(msg, 1, kw) /\ ScopeThenLit(msg, Len(kw) + 1, sBangColon)
  \/ \E i \in 1..Len(msg) : LitAt(msg, i, sBreaking)

\* A variant that accepts no scope.
minorRegexNoScope(msg) == LitAt(msg, 1, sFeat \o sColon)

\* ^feat(\(.+\))?: 
minorRegex(msg) == LitAt(msg, 1, sFeat) /\ ScopeThenLit(msg, Len(sFeat) + 1, sColon)

\* ^fix(\(.+\))?: 
patchRegex(msg) == LitAt(msg, 1, sFix) /\ ScopeThenLit(msg, Len(sFix) + 1, sColon)

NoBump == [major |-> FALSE, minor |-> FALSE, patch |-> FALSE]

\* The three checks of traverse's callback, applied to one message.
Classify(versionBump, msg) ==
  [major |-> versionBump.major \/ majorRegex(msg),
   minor |-> versionBump.minor \/ minorRegex(msg),
   patch |-> versionBump.patch \/ patchRegex(msg)]

(***************************************************************************)
(* The repository, the command line and the state of one run.              *)
(***************************************************************************)
VARIABLES
  parents,            \* commit -> its parent commits, in order
  message,            \* commit -> commit message
  files,              \* commit -> names of the files of its tree
  tags,               \* commit -> name of the tag that points at it, or <<>>
  prefix,             \* -prefix
  filterPath,         \* -filter-path
  pc,                 \* position in SemVer() and calculateSemVer
  tagRefs,            \* SemVer: commit -> tag name, <<>> for no entry
  latestMain, mainVersionBump, mainBranch,
  latestBranch, branchVersionBump,
  headName,           \* SemVer: short name of the reference HEAD
  latestVersion,      \* SemVer: the latest version in either walk
  result, err,        \* what SemVer() returns
  release, printed,   \* calculateSemVer: -release and the string it returns
  iter,               \* traverse: the commit iterator of Log
  latestTag, commitDistance, commitHash, versionBump,
  calls,              \* how often traverse and getMainBranch were called
  fnIn, fnOut, fnPc   \* argument, results and position of a value operation

repoVars == <<parents, message, files, tags, prefix, filterPath>>

walkVars == <<iter, latestTag, commitDistance, commitHash, versionBump>>

runVars ==
  <<pc, tagRefs, latestMain, mainVersionBump, mainBranch, latestBranch,
    branchVersionBump, headName, latestVersion, result, err, release, printed,
    calls>>

fnVars == <<fnIn, fnOut, fnPc>>

vars == <<repoVars, walkVars, runVars, fnVars>>

\* The number of commits of the repository.
NumCommits == 3

Commits == 1..NumCommits

\* Log starts at HEAD, here the newest commit.
HEAD == NumCommits

\* commit.Hash.String(): distinct, and longer than a short hash.
HashOf(c) == <<"a", "b", "c", "d", "e", "f", DigitChar(c % 10), "9", "9">>

(***************************************************************************)
(* go-git's commit iterators behind Repository.Log.                        *)
(* LogOrderDFS is the pre-order iterator: a stack of iterators over the    *)
(* not yet seen parents of the commits returned so far.  LogOrderDFSPost   *)
(* is the post-order iterator: a stack of commits; a commit popped is      *)
(* returned and all its parents are pushed.  commit 0 is io.EOF.           *)
(***************************************************************************)
NewCommitPreorderIter(c) ==
  [order |-> "DFS", start |-> c, stack |-> <<>>, pending |-> <<>>, seen |-> {}]

NewCommitPostorderIter(c) ==
  [order |-> "DFSPost", start |-> 0, stack |-> <<>>, pending |-> <<c>>, seen |-> {}]

\* The parents of c that are not in seen, in order.
FilteredParents(c, seen) == SelectSeq(parents[c], LAMBDA p : p \notin seen)

\* Pre-order: c was taken from the iterator; skip it when seen, else return it.
PreVisit(it, c) ==
  LET seen2 == it.seen \cup {c} IN
  [it EXCEPT !.seen = seen2,
             !.stack = IF Len(parents[c]) > 0
                       THEN Append(it.stack, FilteredParents(c, seen2))
                       ELSE it.stack]

RECURSIVE PreNext(_)
PreNext(it) ==
  IF it.start /= 0
  THEN [commit |-> it.start, it |-> PreVisit([it EXCEPT !.start = 0], it.start)]
  ELSE IF it.stack = <<>> THEN [commit |-> 0, it |-> it]
  ELSE LET top == it.stack[Len(it.stack)] IN
       IF top = <<>>
       THEN PreNext([it EXCEPT !.stack = SubSeq(it.stack, 1, Len(it.stack) - 1)])
       ELSE LET c == Head(top)
                it2 == [it EXCEPT !.stack[Len(it.stack)] = Tail(top)]
            IN IF c \in it.seen THEN PreNext(it2)
               ELSE [commit |-> c, it |-> PreVisit(it2, c)]

\* A variant that follows only the last parent of a commit.
RECURSIVE PostNextLastParent(_)
PostNextLastParent(it) ==
  IF it.pending = <<>> THEN [commit |-> 0, it |-> it]
  ELSE LET c == it.pending[Len(it.pending)]
           rest == SubSeq(it.pending, 1, Len(it.pending) - 1)
       IN IF c \in it.seen THEN PostNextLastParent([it EXCEPT !.pending = rest])
          ELSE [commit |-> c,
                it |-> [it EXCEPT !.seen = it.seen \cup {c},
                                  !.pending =
                                    IF parents[c] = <<>> THEN rest
                                    ELSE Append(rest, parents[c][Len(parents[c])])]]

RECURSIVE PostNext(_)
PostNext(it) ==
  IF it.pending = <<>> THEN [commit |-> 0, it |-> it]
  ELSE LET c == it.pending[Len(it.pending)]
           rest == SubSeq(it.pending, 1, Len(it.pending) - 1)
       IN IF c \in it.seen THEN PostNext([it EXCEPT !.pending = rest])
          ELSE [commit |-> c,
                it |-> [it EXCEPT !.seen = it.seen \cup {c},
                                  !.pending = rest \o parents[c]]]

\* CommitIter.Next
IterNext(it) == IF it.order = "DFS" THEN PreNext(it) ELSE PostNext(it)

\* Repository.Log(&git.LogOptions{Order: order}), from HEAD
Log(order) ==
  IF order = "DFS" THEN NewCommitPreorderIter(HEAD) ELSE NewCommitPostorderIter(HEAD)

(***************************************************************************)
(* ConventionalCommits.SemVer and ConventionalCommits.traverse.            *)
(***************************************************************************)
\* The tag index: the tags whose name passes the prefix filter, by commit.
TagIndex ==
  [c \in Commits |->
     IF tags[c] /= <<>> /\ (prefix = <<>> \/ HasPrefix(tags[c], prefix))
     THEN tags[c] ELSE <<>>]

\* A variant that looks at every tag of the repository, not at the index.
NoTagsInRepository(refs) == \A c \in Commits : tags[c] = <<>>

\* len(tagRefs) == 0
NoTags(refs) == \A c \in Commits : refs[c] = <<>>

\* isRelevantCommit
IsRelevantCommit(c) ==
  IF prefix = <<>> THEN TRUE
  ELSE \E f \in files[c] : HasPrefix(f, filterPath)

\* A variant in which a tie goes to the main walk.
LatestVersionMainOnTie(main, branch) ==
  IF main.nil THEN branch
  ELSE IF branch.nil THEN main
  ELSE IF GreaterThan(branch, main) THEN branch
  ELSE main

\* The latest version in either walk (both found one).
LatestVersion(main, branch) ==
  IF main.nil THEN branch
  ELSE IF branch.nil THEN main
  ELSE IF GreaterThan(main, branch) THEN main
  ELSE branch

\* A variant that tests the minor flags before the major flags.
NewVersionMinorFirst(latest, mainBump, branchBump) ==
  IF mainBump.minor \/ branchBump.minor THEN IncMinor(latest)
  ELSE IF mainBump.major \/ branchBump.major THEN IncMajor(latest)
  ELSE IF mainBump.patch \/ branchBump.patch THEN IncPatch(latest)
  ELSE latest

\* The highest increment either walk asks for.
NewVersion(latest, mainBump, branchBump) ==
  IF mainBump.major \/ branchBump.major THEN IncMajor(latest)
  ELSE IF mainBump.minor \/ branchBump.minor THEN IncMinor(latest)
  ELSE IF mainBump.patch \/ branchBump.patch THEN IncPatch(latest)
  ELSE latest

\* A variant that never drops the extended information.
KeepExtended(newVersion, main, branch) == newVersion

\* Drop the extended information on the main branch.
DropExtended(newVersion, main, branch) ==
  IF SameBranch(branch, main) THEN [newVersion EXCEPT !.Ext = NilExt]
  ELSE newVersion

Order(which) == IF which = "main" THEN "DFS" ELSE "DFSPost"

\* SemVer, lines 61-88: the tag index, and 0.1.0 when it is empty.
EnumerateTags ==
  /\ pc = "tags"
  /\ tagRefs' = TagIndex
  /\ IF NoTags(TagIndex)
     THEN /\ result' = NewSemVer(0, 1, 0)
          /\ pc' = "return"
     ELSE /\ result' = result
          /\ pc' = "main_log"
  /\ UNCHANGED <<repoVars, walkVars, fnVars, latestMain, mainVersionBump,
                 mainBranch, latestBranch, branchVersionBump, headName,
                 latestVersion, err, release, printed, calls>>

\* traverse, lines 150-162: the locals and the commit iterator.
TraverseLog(which) ==
  /\ pc = which \o "_log"
  /\ iter' = Log(Order(which))
  /\ latestTag' = <<>>
  /\ commitDistance' = 0
  /\ commitHash' = <<>>
  /\ versionBump' = NoBump
  /\ calls' = [calls EXCEPT !.traverse = @ + 1]
  /\ pc' = which \o "_walk"
  /\ UNCHANGED <<repoVars, fnVars, tagRefs, latestMain, mainVersionBump,
                 mainBranch, latestBranch, branchVersionBump, headName,
                 latestVersion, result, err, release, printed>>

\* traverse, lines 164-187: the callback, on the next commit of the iterator.
Visit(which) ==
  /\ pc = which \o "_walk"
  /\ latestTag = <<>>
  /\ IterNext(iter).commit /= 0
  /\ LET c == IterNext(iter).commit IN
     /\ iter' = IterNext(iter).it
     /\ commitHash' = IF commitHash = <<>> THEN HashOf(c) ELSE commitHash
     /\ latestTag' = tagRefs[c]
     /\ IF tagRefs[c] /= <<>>
        THEN UNCHANGED <<commitDistance, versionBump>>
        ELSE /\ commitDistance' = commitDistance + 1
             /\ versionBump' = IF IsRelevantCommit(c)
                               THEN Classify(versionBump, message[c])
                               ELSE versionBump
  /\ UNCHANGED <<repoVars, runVars, fnVars>>

\* A variant that counts the tagged commit too.
TraverseParsedCountTagged(parsed) ==
  IF parsed.kind /= "ok" THEN parsed
  ELSE ParseOk(SetCommitHash(
                 SetCommitDistance(SetBranch(parsed.semver, <<>>),
                                   commitDistance + 1),
                 commitHash))

\* What traverse returns, lines 188-207: [kind, semver].
TraverseParsed(parsed) ==
  IF parsed.kind /= "ok" THEN parsed
  ELSE ParseOk(SetCommitHash(
                 SetCommitDistance(SetBranch(parsed.semver, <<>>),
                                   commitDistance),
                 commitHash))

TraverseResult ==
  IF latestTag = <<>> THEN ParseOk(NilSemVer)
  ELSE TraverseParsed(ParseSemVer(latestTag))

\* traverse returns to SemVer, lines 91-94 and 102-105.
TraverseReturn(which) ==
  /\ pc = which \o "_walk"
  /\ latestTag /= <<>> \/ IterNext(iter).commit = 0
  /\ LET r == TraverseResult
         version == IF r.kind = "ok" THEN r.semver ELSE NilSemVer
     IN
     /\ IF which = "main"
        THEN /\ latestMain' = version
             /\ mainVersionBump' = versionBump
             /\ UNCHANGED <<latestBranch, branchVersionBump>>
        ELSE /\ latestBranch' = version
             /\ branchVersionBump' = versionBump
             /\ UNCHANGED <<latestMain, mainVersionBump>>
     /\ IF r.kind = "panic"
        THEN pc' = "panic" /\ err' = err
        ELSE IF r.kind = "error"
        THEN pc' = "return" /\ err' = "couldn't walk commits on " \o which
        ELSE /\ pc' = IF which = "main" THEN "main_branch" ELSE "head"
             /\ err' = err
  /\ UNCHANGED <<repoVars, walkVars, fnVars, tagRefs, mainBranch, headName,
                 latestVersion, result, release, printed, calls>>

\* What gh reports as the default branch; <<>> is a failed call.
sMain == <<"m", "a", "i", "n">>

sFeatureX == <<"f", "e", "a", "t", "u", "r", "e", "/", "x">>

MainBranchOutcomes == {sMain, <<>>}

\* SemVer, lines 95-99: getMainBranch and latestMain.SetBranch, which
\* dereferences latestMain.
GetMainBranch ==
  /\ pc = "main_branch"
  /\ calls' = [calls EXCEPT !.getMainBranch = @ + 1]
  /\ \E name \in MainBranchOutcomes :
       IF name = <<>>
       THEN /\ pc' = "return"
            /\ err' = "couldn't figure out main branch"
            /\ UNCHANGED <<mainBranch, latestMain>>
       ELSE /\ mainBranch' = name
            /\ err' = err
            /\ IF latestMain.nil
               THEN pc' = "panic" /\ latestMain' = latestMain
               ELSE pc' = "branch_log" /\ latestMain' = SetBranch(latestMain, name)
  /\ UNCHANGED <<repoVars, walkVars, fnVars, tagRefs, mainVersionBump,
                 latestBranch, branchVersionBump, headName, latestVersion,
                 result, release, printed>>

\* The short names Head can report.
HeadNames == {sMain, sFeatureX}

\* SemVer, lines 106-110: Head and latestBranch.SetBranch, which
\* dereferences latestBranch.
SetHeadBranch ==
  /\ pc = "head"
  /\ \E name \in HeadNames :
       /\ headName' = name
       /\ IF latestBranch.nil
          THEN pc' = "panic" /\ latestBranch' = latestBranch
          ELSE pc' = "resolve" /\ latestBranch' = SetBranch(latestBranch, name)
  /\ UNCHANGED <<repoVars, walkVars, fnVars, tagRefs, latestMain,
                 mainVersionBump, mainBranch, branchVersionBump, latestVersion,
                 result, err, release, printed, calls>>

\* SemVer, lines 112-146.
Resolve ==
  /\ pc = "resolve"
  /\ IF latestMain.nil /\ latestBranch.nil
     THEN /\ pc' = "return"
          /\ err' = "tags exist in the repository, but not in ancestors of HEAD"
          /\ UNCHANGED <<latestVersion, result>>
     ELSE IF latestMain.nil \/ latestBranch.nil
     THEN /\ pc' = "panic"
          /\ latestVersion' = LatestVersion(latestMain, latestBranch)
          /\ UNCHANGED <<err, result>>
     ELSE /\ pc' = "return"
          /\ err' = err
          /\ latestVersion' = LatestVersion(latestMain, latestBranch)
          /\ result' = DropExtended(
                         NewVersion(LatestVersion(latestMain, latestBranch),
                                    mainVersionBump, branchVersionBump),
                         latestMain, latestBranch)
  /\ UNCHANGED <<repoVars, walkVars, fnVars, tagRefs, latestMain,
                 mainVersionBump, mainBranch, latestBranch, branchVersionBump,
                 headName, release, printed, calls>>

\* calculateSemVer (main.go), after SemVer returned.
CalculateSemVer ==
  /\ pc = "return"
  /\ IF err /= ""
     THEN pc' = "exit" /\ UNCHANGED <<release, printed>>
     ELSE /\ pc' = "printed"
          /\ \E rel \in BOOLEAN :
               /\ release' = rel
               /\ printed' = SemVerPrint([result EXCEPT !.Prefix = prefix], rel)
  /\ UNCHANGED <<repoVars, walkVars, fnVars, tagRefs, latestMain,
                 mainVersionBump, mainBranch, latestBranch, branchVersionBump,
                 headName, latestVersion, result, err, calls>>

(***************************************************************************)
(* The repositories checked.                                               *)
(***************************************************************************)
mChore == <<"c", "h", "o", "r", "e", ":", " ", "x">>

mFix == <<"f", "i", "x", ":", " ", "x">>

mFeat == <<"f", "e", "a", "t", ":", " ", "x">>

mFeatBang == <<"f", "e", "a", "t", "!", ":", " ", "x">>

RepoMessages == {mChore, mFix, mFeat, mFeatBang}

tV123 == <<"v", "1", ".", "2", ".", "3">>

t123 == <<"1", ".", "2", ".", "3">>

tV130 == <<"v", "1", ".", "3", ".", "0">>

TagNames == {tV123, t123, tV130}

\* No parents, one parent, or the two parents of a merge, all older commits.
ParentChoices(c) ==
  {<<>>} \cup {<<p>> : p \in 1..(c - 1)}
    \cup {<<pq[1], pq[2]>> :
            pq \in {x \in (1..(c - 1)) \X (1..(c - 1)) : x[1] /= x[2]}}

AllParentChoices == UNION {ParentChoices(c) : c \in Commits}

Graphs == {g \in [Commits -> AllParentChoices] : \A c \in Commits : g[c] \in ParentChoices(c)}

\* A tag name is the name of one reference.
TagAssignments ==
  {f \in [Commits -> TagNames \cup {<<>>}] :
     \A c, d \in Commits : c /= d /\ f[c] /= <<>> => f[c] /= f[d]}

InitRun ==
  /\ tagRefs = [c \in Commits |-> <<>>]
  /\ latestMain = NilSemVer
  /\ mainVersionBump = NoBump
  /\ mainBranch = <<>>
  /\ latestBranch = NilSemVer
  /\ branchVersionBump = NoBump
  /\ headName = <<>>
  /\ latestVersion = NilSemVer
  /\ result = NilSemVer
  /\ err = ""
  /\ release = FALSE
  /\ printed = <<>>
  /\ iter = NewCommitPreorderIter(0)
  /\ latestTag = <<>>
  /\ commitDistance = 0
  /\ commitHash = <<>>
  /\ versionBump = NoBump
  /\ calls = [traverse |-> 0, getMainBranch |-> 0]

\* Any history of NumCommits commits, merges included, with plain tags and
\* no monorepo options.
InitGraphs ==
  /\ parents \in Graphs
  /\ message \in [Commits -> RepoMessages]
  /\ files = [c \in Commits |-> {}]
  /\ tags \in TagAssignments
  /\ prefix = <<>>
  /\ filterPath = <<>>

sM == <<"m">>

sMDir == <<"m", "/">>

fileMA == <<"m", "/", "a">>

fileB == <<"b">>

tMV123 == <<"m", "-", "v", "1", ".", "2", ".", "3">>

\* A linear history with its oldest commit tagged, under every combination
\* of -prefix and -filter-path.
InitMonorepo ==
  /\ parents = [c \in Commits |-> IF c = 1 THEN <<>> ELSE <<c - 1>>]
  /\ message \in [Commits -> {mChore, mFeat}]
  /\ files \in [Commits -> {{}, {fileMA}, {fileB}}]
  /\ tags \in {[c \in Commits |-> IF c = 1 THEN name ELSE <<>>] :
                 name \in {tMV123, tV123}}
  /\ prefix \in {<<>>, sM}
  /\ filterPath \in {<<>>, sMDir}

tLatest == <<"l", "a", "t", "e", "s", "t">>

tV12 == <<"v", "1", ".", "2">>

tPatchTooLarge ==
  <<"1", ".", "2", ".", "4", "2", "9", "4", "9", "6", "7", "2", "9", "6">>

\* A linear history with one tag that is not a version: a name, a version
\* without its patch number, or a patch number ParseUint does not hold.
InitMalformed ==
  /\ parents = [c \in Commits |-> IF c = 1 THEN <<>> ELSE <<c - 1>>]
  /\ message \in [Commits -> {mChore, mFix}]
  /\ files = [c \in Commits |-> {}]
  /\ tags \in {[c \in Commits |-> IF c = at THEN name ELSE <<>>] :
                 at \in Commits, name \in {tLatest, tV12, tPatchTooLarge}}
  /\ prefix = <<>>
  /\ filterPath = <<>>

Init ==
  /\ InitGraphs \/ InitMonorepo \/ InitMalformed
  /\ pc = "tags"
  /\ InitRun
  /\ fnIn = <<>>
  /\ fnOut = <<>>
  /\ fnPc = "off"

Next ==
  \/ EnumerateTags
  \/ \E which \in {"main", "branch"} : TraverseLog(which)
  \/ \E which \in {"main", "branch"} : Visit(which)
  \/ \E which \in {"main", "branch"} : TraverseReturn(which)
  \/ GetMainBranch
  \/ SetHeadBranch
  \/ Resolve
  \/ CalculateSemVer

Spec == Init /\ [][Next]_vars

(***************************************************************************)
(* The value operations on their own: no run of SemVer() is in progress.   *)
(***************************************************************************)
InitOff ==
  /\ parents = [c \in Commits |-> <<>>]
  /\ message = [c \in Commits |-> <<>>]
  /\ files = [c \in Commits |-> {}]
  /\ tags = [c \in Commits |-> <<>>]
  /\ prefix = <<>>
  /\ filterPath = <<>>
  /\ pc = "off"
  /\ InitRun

sV == <<"v">>

hAbcdef3 == <<"a", "b", "c", "d", "e", "f", "3">>

h1234567 == <<"1", "2", "3", "4", "5", "6", "7">>

VersionNumbers == {0, 7, 12}

ExtValues ==
  {NilExt} \cup
  {SemVerExtended(b, d, h) :
     b \in {<<>>, sMain, sFeatureX, <<"7">>}, d \in {0, 12},
     h \in {<<>>, hAbcdef3, h1234567}}

SemVerValues ==
  {[nil |-> FALSE, Prefix |-> p, LeadingV |-> v, Major |-> x[1], Minor |-> x[2],
    Patch |-> x[3], Ext |-> e] :
     p \in {<<>>, sM}, v \in {<<>>, sV},
     x \in VersionNumbers \X VersionNumbers \X VersionNumbers, e \in ExtValues}

NoRoundTrip == [printed |-> <<>>, parsed |-> ParseOk(NilSemVer), reprinted |-> <<>>]

InitRoundTrip ==
  /\ InitOff
  /\ fnIn \in SemVerValues
  /\ fnOut = NoRoundTrip
  /\ fnPc = "value"

\* s = v.Print(false)
PrintValue ==
  /\ fnPc = "value"
  /\ fnOut' = [fnOut EXCEPT !.printed = SemVerPrint(fnIn, FALSE)]
  /\ fnPc' = "printed"
  /\ UNCHANGED <<repoVars, walkVars, runVars, fnIn>>

\* ParseSemVer(s)
ParsePrinted ==
  /\ fnPc = "printed"
  /\ fnOut' = [fnOut EXCEPT !.parsed = ParseSemVer(fnOut.printed)]
  /\ fnPc' = "parsed"
  /\ UNCHANGED <<repoVars, walkVars, runVars, fnIn>>

\* The parsed value printed again.
PrintParsed ==
  /\ fnPc = "parsed"
  /\ fnOut.parsed.kind = "ok"
  /\ fnOut' = [fnOut EXCEPT !.reprinted = SemVerPrint(fnOut.parsed.semver, FALSE)]
  /\ fnPc' = "reprinted"
  /\ UNCHANGED <<repoVars, walkVars, runVars, fnIn>>

NextRoundTrip == PrintValue \/ ParsePrinted \/ PrintParsed

SpecRoundTrip == InitRoundTrip /\ [][NextRoundTrip]_vars

\* The longest commit message checked, in tokens.
MaxTokens == 4

Tokens ==
  {sFix, sFeat, <<"(", "x", ")">>, <<"(">>, <<")">>, <<"!">>, sColon,
   sBreaking, <<"x">>, <<"\n">>}

RECURSIVE TokenStrings(_)
TokenStrings(n) ==
  IF n = 0 THEN {<<>>}
  ELSE {tm[1] \o tm[2] : tm \in Tokens \X TokenStrings(n - 1)}

CommitMessages == UNION {TokenStrings(n) : n \in 0..MaxTokens}

InitClassify ==
  /\ InitOff
  /\ fnIn \in CommitMessages
  /\ fnOut = NoBump
  /\ fnPc = "message"

\* The classification of one commit message, from no flag set.
ClassifyMessage ==
  /\ fnPc = "message"
  /\ fnOut' = Classify(NoBump, fnIn)
  /\ fnPc' = "classified"
  /\ UNCHANGED <<repoVars, walkVars, runVars, fnIn>>

NextClassify == ClassifyMessage

SpecClassify == InitClassify /\ [][NextClassify]_vars

\* The longest text given to ParseSemVer, in tokens.
MaxParseTokens == 4

t1 == <<"1">>

t12 == <<"1", ".", "2">>

tDot == <<".">>

tDot1Dot == <<".", "1", ".">>

tDash == <<"-">>

tX == <<"x">>

\* 2^32, one more than a number of bit size 32 holds.
tTooLarge == <<"4", "2", "9", "4", "9", "6", "7", "2", "9", "6">>

ParseTokens == {t123, t12, t1, tDot, tDot1Dot, tDash, tX, sV, tTooLarge}

RECURSIVE ParseTokenStrings(_)
ParseTokenStrings(n) ==
  IF n = 0 THEN {<<>>}
  ELSE {tm[1] \o tm[2] : tm \in ParseTokens \X ParseTokenStrings(n - 1)}

ParseInputs == UNION {ParseTokenStrings(n) : n \in 0..MaxParseTokens}

InitParse ==
  /\ InitOff
  /\ fnIn \in ParseInputs
  /\ fnOut = ParseOk(NilSemVer)
  /\ fnPc = "input"

\* ParseSemVer(input)
CallParseSemVer ==
  /\ fnPc = "input"
  /\ fnOut' = ParseSemVer(fnIn)
  /\ fnPc' = "parsed"
  /\ UNCHANGED <<repoVars, walkVars, runVars, fnIn>>

NextParse == CallParseSemVer

SpecParse == InitParse /\ [][NextParse]_vars

\* The increments: fnIn is the receiver s, fnOut the call and what it returned.
NoInc == [op |-> "", result |-> NilSemVer]

InitInc ==
  /\ InitOff
  /\ fnIn \in SemVerValues
  /\ fnOut = NoInc
  /\ fnPc = "receiver"

\* s.IncMajor()
CallIncMajor ==
  /\ fnPc = "receiver"
  /\ fnOut' = [op |-> "IncMajor", result |-> IncMajor(fnIn)]
  /\ fnPc' = "returned"
  /\ UNCHANGED <<repoVars, walkVars, runVars, fnIn>>

\* s.IncMinor()
CallIncMinor ==
  /\ fnPc = "receiver"
  /\ fnOut' = [op |-> "IncMinor", result |-> IncMinor(fnIn)]
  /\ fnPc' = "returned"
  /\ UNCHANGED <<repoVars, walkVars, runVars, fnIn>>

\* s.IncPatch()
CallIncPatch ==
  /\ fnPc = "receiver"
  /\ fnOut' = [op |-> "IncPatch", result |-> IncPatch(fnIn)]
  /\ fnPc' = "returned"
  /\ UNCHANGED <<repoVars, walkVars, runVars, fnIn>>

NextInc == CallIncMajor \/ CallIncMinor \/ CallIncPatch

SpecInc == InitInc /\ [][NextInc]_vars

(***************************************************************************)
(* Properties of SemVer() and traverse, checked under Spec.                *)
(***************************************************************************)
ParentSet(c) == {parents[c][i] : i \in 1..Len(parents[c])}

\* The commits of S and all their ancestors.
RECURSIVE ReachFrom(_)
ReachFrom(S) ==
  IF UNION {ParentSet(c) : c \in S} \subseteq S THEN S
  ELSE ReachFrom(S \cup UNION {ParentSet(c) : c \in S})

\* Commit c carries a tag that enters the tag index.
Indexed(c) == tags[c] /= <<>> /\ (prefix = <<>> \/ HasPrefix(tags[c], prefix))

\* SemVer() ran to its end and returned a version computed from both walks.
Resolved == pc \in {"return", "printed"} /\ err = "" /\ calls.traverse = 2

Triple(s) == <<s.Major, s.Minor, s.Patch>>

\* C1: when the tag index is not empty and no ancestor of HEAD is in it, so
\* that both walks return no tag, SemVer() never crashes and returns the
\* error "tags exist in the repository, but not in ancestors of HEAD"
\* (unless the main branch name could not be obtained).
C1_UnreachableTagsError ==
  ((\E c \in Commits : Indexed(c)) /\ (\A c \in ReachFrom({HEAD}) : ~Indexed(c)))
    => /\ pc /= "panic"
       /\ (pc \in {"return", "exit"} /\ err /= "couldn't figure out main branch")
            => err = "tags exist in the repository, but not in ancestors of HEAD"

\* C2: when no tag enters the tag index, SemVer() returns 0.1.0 with no
\* leading v and no extended information, having called neither traverse
\* nor getMainBranch, whatever the commit graph and the messages.
C2_NoTagsFirstRelease ==
  ((\A c \in Commits : ~Indexed(c)) /\ pc /= "tags")
    => /\ pc \in {"return", "printed"}
       /\ err = ""
       /\ ~result.nil
       /\ Triple(result) = <<0, 1, 0>>
       /\ result.LeadingV = <<>>
       /\ result.Ext.nil
       /\ calls.traverse = 0
       /\ calls.getMainBranch = 0

\* C2's case: tags exist, none has the configured prefix, and a commit
\* message asks for an increment.
C2_Witness ==
  /\ pc = "return"
  /\ \A c \in Commits : ~Indexed(c)
  /\ \E c \in Commits : tags[c] /= <<>>
  /\ \E c \in Commits : message[c] = mFeat
  /\ Triple(result) = <<0, 1, 0>>

\* The commits made since commit T: reachable from HEAD and neither T nor
\* an ancestor of T.
Since(T) == ReachFrom({HEAD}) \ ReachFrom({T})

\* C3: when a walk stops at a tagged commit T and no path filter is set,
\* the commits it classified and counted are exactly the commits made since
\* T, and its bump is the OR of their classifications.
C3_BumpOfCommitsSinceRelease ==
  \A which \in {"main", "branch"} :
    (pc = which \o "_walk" /\ latestTag /= <<>> /\ filterPath = <<>>)
      => \A T \in {c \in iter.seen : Indexed(c)} :
           /\ iter.seen \ {T} = Since(T)
           /\ commitDistance = Cardinality(Since(T))
           /\ versionBump =
                [major |-> \E c \in Since(T) : majorRegex(message[c]),
                 minor |-> \E c \in Since(T) : minorRegex(message[c]),
                 patch |-> \E c \in Since(T) : patchRegex(message[c])]

\* The characters of b that are digits or letters.
Alnum(b) == SelectSeq(b, LAMBDA ch : ch \in Digit \cup Lower \cup Upper)

\* The newest tagged ancestor of HEAD in a linear history.
LatestTagged == Max({c \in ReachFrom({HEAD}) : Indexed(c)})

\* Major, minor and patch of the tag names vX.Y.Z of the repositories checked.
PlainTagTriple(name) == IF name = tV123 THEN <<1, 2, 3>> ELSE <<1, 3, 0>>

\* C5's case: a linear history, the newest tagged ancestor of HEAD tagged
\* vX.Y.Z, n >= 1 commits after it of which one is a "feat: " commit and
\* none is breaking, no tag prefix, and a current branch that is not the
\* main branch.
C5_Case ==
  /\ pc = "printed"
  /\ ~release
  /\ prefix = <<>>
  /\ \A c \in ReachFrom({HEAD}) : Len(parents[c]) <= 1
  /\ \E c \in ReachFrom({HEAD}) : Indexed(c)
  /\ tags[LatestTagged] \in {tV123, tV130}
  /\ LatestTagged /= HEAD
  /\ \E c \in Since(LatestTagged) : HasPrefix(message[c], <<"f", "e", "a", "t", ":", " ">>)
  /\ \A c \in Since(LatestTagged) : message[c] /= mFeatBang
  /\ headName /= mainBranch

\* C5: in that case the string printed with release = false is
\* vX.(Y+1).0-<B without the characters outside [0-9A-Za-z]>.n.<the first
\* seven characters of HEAD's hash>.
C5_FeatureBranchVersion ==
  C5_Case =>
    printed =
      <<"v">> \o FormatUint(PlainTagTriple(tags[LatestTagged])[1]) \o <<".">>
        \o FormatUint(PlainTagTriple(tags[LatestTagged])[2] + 1) \o <<".", "0", "-">>
        \o Alnum(headName) \o <<".">>
        \o FormatUint(Cardinality(Since(LatestTagged))) \o <<".">>
        \o SubSeq(HashOf(HEAD), 1, 7)

\* Two commits after tag v1.2.3 on branch feature/x, one of them a feature.
C5_Witness ==
  /\ C5_Case
  /\ Cardinality(Since(LatestTagged)) = 2
  /\ printed = <<"v", "1", ".", "3", ".", "0", "-", "f", "e", "a", "t", "u", "r",
                 "e", "x", ".", "2", ".", "a", "b", "c", "d", "e", "f", "3">>

AnyMajor == mainVersionBump.major \/ branchVersionBump.major

AnyMinor == mainVersionBump.minor \/ branchVersionBump.minor

AnyPatch == mainVersionBump.patch \/ branchVersionBump.patch

\* C6: the version returned is the base version with its major incremented
\* (minor and patch 0) when either bump has major; else with its minor
\* incremented (patch 0) when either has minor; else with its patch
\* incremented when either has patch; else with the same triple.
C6_IncrementSelection ==
  Resolved =>
    Triple(result) =
      CASE AnyMajor -> <<latestVersion.Major + 1, 0, 0>>
        [] ~AnyMajor /\ AnyMinor -> <<latestVersion.Major, latestVersion.Minor + 1, 0>>
        [] ~AnyMajor /\ ~AnyMinor /\ AnyPatch ->
             <<latestVersion.Major, latestVersion.Minor, latestVersion.Patch + 1>>
        [] OTHER -> Triple(latestVersion)

\* A major bump asked for by one walk only, with a lower flag set as well.
C6_Witness ==
  /\ Resolved
  /\ AnyMajor /\ (AnyMinor \/ AnyPatch)
  /\ mainVersionBump /= branchVersionBump
  /\ Triple(result) = <<latestVersion.Major + 1, 0, 0>>

TripleGreater(a, b) ==
  \/ a.Major > b.Major
  \/ a.Major = b.Major /\ (a.Minor > b.Minor \/ (a.Minor = b.Minor /\ a.Patch > b.Patch))

\* C7: the base version is the one version found when only one walk found
\* a tag; when both did it is latestMain if its triple is greater than
\* latestBranch's and latestBranch otherwise, also when the triples are
\* equal, whatever the extended information.
C7_BaseVersionSelection ==
  (pc \in {"return", "printed"} /\ err = "" /\ calls.traverse = 2) =>
    /\ (latestMain.nil /\ ~latestBranch.nil) => latestVersion = latestBranch
    /\ (latestBranch.nil /\ ~latestMain.nil) => latestVersion = latestMain
    /\ (~latestMain.nil /\ ~latestBranch.nil) =>
         latestVersion =
           IF TripleGreater(latestMain, latestBranch) THEN latestMain ELSE latestBranch

\* The walks stopped at different tags with equal triples, and the branch
\* walk's version is the base.
C7_Witness ==
  /\ Resolved
  /\ Triple(latestMain) = Triple(latestBranch)
  /\ latestMain.LeadingV /= latestBranch.LeadingV
  /\ latestVersion = latestBranch
  /\ latestVersion /= latestMain

\* C8: when both walks found a tag, the version returned has no extended
\* information if HEAD's short name is the main branch name; otherwise it
\* has the branch, distance and hash of the base version.
C8_ExtendedPolicy ==
  (Resolved /\ ~latestMain.nil /\ ~latestBranch.nil) =>
    /\ latestMain.Ext.Branch = mainBranch
    /\ latestBranch.Ext.Branch = headName
    /\ IF headName = mainBranch THEN result.Ext.nil
       ELSE /\ ~result.Ext.nil
            /\ result.Ext = latestVersion.Ext
            /\ latestVersion \in {latestMain, latestBranch}

\* Off the main branch, after an increment, with commits since the tag.
C8_Witness ==
  /\ Resolved
  /\ headName /= mainBranch
  /\ Triple(result) /= Triple(latestVersion)
  /\ result.Ext.Branch = sFeatureX
  /\ result.Ext.CommitDistance = 2

\* The commits a walk has visited so far, and the tagged ones among them.
Visited == iter.seen

VisitedTagged == {c \in Visited : tagRefs[c] /= <<>>}

\* The OR of the classifications of the commits of S.
BumpOf(S) ==
  [major |-> \E c \in S : majorRegex(message[c]),
   minor |-> \E c \in S : minorRegex(message[c]),
   patch |-> \E c \in S : patchRegex(message[c])]

\* Every flag of bump a is a flag of bump b.
BumpWithin(a, b) ==
  (a.major => b.major) /\ (a.minor => b.minor) /\ (a.patch => b.patch)

\* C12, while a walk runs: at most one visited commit is in the tag index,
\* latestTag is its tag, it is neither counted nor classified, and the hash
\* kept is that of the first commit visited, the start of the walk.
C12_WalkState ==
  pc \in {"main_walk", "branch_walk"} =>
    /\ Cardinality(VisitedTagged) <= 1
    /\ (latestTag = <<>>) <=> (VisitedTagged = {})
    /\ \A T \in VisitedTagged : latestTag = tagRefs[T]
    /\ commitDistance = Cardinality(Visited \ VisitedTagged)
    /\ BumpWithin(versionBump, BumpOf(Visited \ VisitedTagged))
    /\ (prefix = <<>> /\ filterPath = <<>>)
         => versionBump = BumpOf(Visited \ VisitedTagged)
    /\ Visited /= {} => (HEAD \in Visited /\ commitHash = HashOf(HEAD))
    /\ (Visited /= {} /\ tagRefs[HEAD] /= <<>>)
         => (Visited = {HEAD} /\ commitDistance = 0 /\ versionBump = NoBump)

\* C12, what a walk returned: the distance is the number of commits visited
\* before the tagged one and the hash the first seven characters of the
\* hash of the first commit visited.
C12_Returned(version, bump) ==
  ~version.nil =>
    /\ Cardinality(VisitedTagged) = 1
    /\ ~version.Ext.nil
    /\ version.Ext.CommitDistance = Cardinality(Visited) - 1
    /\ version.Ext.CommitHash = SubSeq(HashOf(HEAD), 1, 7)
    /\ tagRefs[HEAD] /= <<>> => (version.Ext.CommitDistance = 0 /\ bump = NoBump)

\* C12: a walk stops at the first visited commit that is in the tag index
\* and visits nothing after it; that commit is neither classified nor
\* counted; the distance returned is the number of commits visited before
\* it (0 with no flag set when the start is tagged) and the hash returned
\* comes from the first commit visited.
C12_TagBoundary ==
  /\ []C12_WalkState
  /\ [](pc = "main_branch" => C12_Returned(latestMain, mainVersionBump))
  /\ [](pc = "head" => C12_Returned(latestBranch, branchVersionBump))
  /\ [][(pc \in {"main_walk", "branch_walk"} /\ latestTag /= <<>>)
          => iter' = iter]_vars

\* A walk that returned distance 1 and left an older commit unvisited.
C12_Witness ==
  /\ pc = "head"
  /\ ~latestBranch.nil
  /\ latestBranch.Ext.CommitDistance = 1
  /\ tagRefs[HEAD] = <<>>
  /\ Cardinality(Visited) = 2
  /\ ReachFrom({HEAD}) \ Visited /= {}
  /\ latestBranch.Ext.CommitHash = SubSeq(HashOf(HEAD), 1, 7)

\* A walk has ended: it stopped at a tag or ran out of commits.
WalkEnded ==
  pc \in {"main_walk", "branch_walk"}
    /\ (latestTag /= <<>> \/ IterNext(iter).commit = 0)

\* C15: a walk in either order finds a tag iff an ancestor of HEAD (HEAD
\* included) is in the tag index, so the two walks agree: both return a
\* version or both return none, base-version selection never sees exactly
\* one version, and both versions carry the hash of the same first commit.
C15_WalksAgree ==
  /\ WalkEnded =>
       ((latestTag /= <<>>) <=> (\E c \in ReachFrom({HEAD}) : tagRefs[c] /= <<>>))
  /\ pc \in {"head", "resolve"} => (latestMain.nil <=> latestBranch.nil)
  /\ (pc \in {"head", "resolve"} /\ ~latestMain.nil)
       => latestMain.Ext.CommitHash = latestBranch.Ext.CommitHash

\* Both walks returned a version, from different tagged commits.
C15_Witness ==
  /\ pc = "resolve"
  /\ ~latestMain.nil
  /\ ~latestBranch.nil
  /\ Triple(latestMain) /= Triple(latestBranch)
  /\ Len(parents[HEAD]) = 2

\* The untagged visited commits that contribute under the path filter alone.
Contributing ==
  {c \in Visited \ VisitedTagged :
     filterPath = <<>> \/ \E f \in files[c] : HasPrefix(f, filterPath)}

\* C13: with a path filter, an untagged visited commit contributes to the
\* bump iff one of its files has the path as a prefix; without one, every
\* untagged visited commit contributes; the tag-name prefix has no part in it.
C13_PathFilterIndependent ==
  pc \in {"main_walk", "branch_walk"} => versionBump = BumpOf(Contributing)

(***************************************************************************)
(* Properties of the value operations.                                     *)
(***************************************************************************)
\* C4: for every SemVer value v, ParseSemVer succeeds on s = v.Print(false)
\* and its result prints as s again.
C4_RoundTrip ==
  /\ fnPc \in {"parsed", "reprinted"} => fnOut.parsed.kind = "ok"
  /\ fnPc = "reprinted" => fnOut.reprinted = fnOut.printed

\* The text s occurs in msg.
Contains(msg, s) ==
  \E i \in 1..(Len(msg) - Len(s) + 1) : SubSeq(msg, i, i + Len(s) - 1) = s

\* A parenthesized scope: "(", one or more characters of one line, ")".
IsScope(t) ==
  /\ Len(t) >= 3
  /\ t[1] = "("
  /\ t[Len(t)] = ")"
  /\ \A k \in 2..(Len(t) - 1) : t[k] /= "\n"

\* msg starts with kw, an optional scope, then lit.
StartsWithRule(msg, kw, lit) ==
  \/ HasPrefix(msg, kw \o lit)
  \/ \E n \in 3..(Len(msg) - Len(kw)) :
       /\ HasPrefix(msg, kw)
       /\ IsScope(SubSeq(msg, Len(kw) + 1, Len(kw) + n))
       /\ HasPrefix(Tail2(msg, Len(kw) + n + 1), lit)

BreakingStart(msg) ==
  StartsWithRule(msg, sFix, sBangColon) \/ StartsWithRule(msg, sFeat, sBangColon)

\* C9 as stated: major is set iff the message starts with fix or feat, an
\* optional scope and "!: ", or starts with "BREAKING CHANGE: ".
C9_MajorAnchored ==
  fnPc = "classified" =>
    (fnOut.major <=> (BreakingStart(fnIn) \/ HasPrefix(fnIn, sBreaking)))

\* C9 amended: major is set iff the message starts with fix or feat, an
\* optional scope and "!: ", or contains "BREAKING CHANGE: " anywhere.
C9_MajorRule ==
  fnPc = "classified" =>
    (fnOut.major <=> (BreakingStart(fnIn) \/ Contains(fnIn, sBreaking)))

\* A fix whose body, not its start, carries the breaking marker.
C9_Witness ==
  /\ fnPc = "classified"
  /\ fnOut.major
  /\ HasPrefix(fnIn, sFix \o sColon)
  /\ ~HasPrefix(fnIn, sBreaking)
  /\ Contains(fnIn, <<"\n">> \o sBreaking)

\* C10: minor is set iff the message starts with feat, an optional scope and
\* ": "; patch iff it starts with fix, an optional scope and ": ".  A message
\* that starts with "feat: " (with "fix: ") and carries no breaking marker
\* sets minor (patch) only; one that starts with "feat!: " sets major and not
\* minor; one that matches no rule sets no flag.
C10_MinorPatchRules ==
  fnPc = "classified" =>
    /\ fnOut.minor <=> StartsWithRule(fnIn, sFeat, sColon)
    /\ fnOut.patch <=> StartsWithRule(fnIn, sFix, sColon)
    /\ (HasPrefix(fnIn, sFeat \o sColon) /\ ~Contains(fnIn, sBreaking))
         => fnOut = [major |-> FALSE, minor |-> TRUE, patch |-> FALSE]
    /\ (HasPrefix(fnIn, sFix \o sColon) /\ ~Contains(fnIn, sBreaking))
         => fnOut = [major |-> FALSE, minor |-> FALSE, patch |-> TRUE]
    /\ HasPrefix(fnIn, sFeat \o sBangColon) => (fnOut.major /\ ~fnOut.minor)
    /\ (/\ ~StartsWithRule(fnIn, sFeat, sColon)
        /\ ~StartsWithRule(fnIn, sFix, sColon)
        /\ ~BreakingStart(fnIn)
        /\ ~Contains(fnIn, sBreaking)) => fnOut = NoBump

\* A scoped feature: minor only.
C10_Witness ==
  /\ fnPc = "classified"
  /\ fnIn = sFeat \o <<"(", "x", ")">> \o sColon \o <<"x">>
  /\ fnOut = [major |-> FALSE, minor |-> TRUE, patch |-> FALSE]

\* What an increment must return for receiver s.
IncExpected(op, s) ==
  IF op = "IncMajor" THEN <<s.Major + 1, 0, 0>>
  ELSE IF op = "IncMinor" THEN <<s.Major, s.Minor + 1, 0>>
  ELSE <<s.Major, s.Minor, s.Patch + 1>>

\* C11: every call of IncMajor, IncMinor or IncPatch on s returns
\* (major+1, 0, 0), (major, minor+1, 0) or (major, minor, patch+1), with the
\* prefix, leadingV and extended metadata of s, and leaves s as it was.
C11_Increments ==
  [][fnPc' = "returned" =>
       /\ ~fnOut'.result.nil
       /\ Triple(fnOut'.result) = IncExpected(fnOut'.op, fnIn)
       /\ fnOut'.result.Prefix = fnIn.Prefix
       /\ fnOut'.result.LeadingV = fnIn.LeadingV
       /\ fnOut'.result.Ext = fnIn.Ext
       /\ fnIn' = fnIn]_vars

\* IncMinor on a prefixed value with a patch number and extended metadata.
C11_Witness ==
  /\ fnPc = "returned"
  /\ fnOut.op = "IncMinor"
  /\ fnIn.Prefix = sM
  /\ fnIn.LeadingV = sV
  /\ fnIn.Patch = 7
  /\ ~fnIn.Ext.nil
  /\ Triple(fnOut.result) = <<fnIn.Major, fnIn.Minor + 1, 0>>

\* The text s contains <digits>.<digits>.<digits>.
HasCore(s) ==
  \E p1 \in 2..(Len(s) - 3) : \E p2 \in (p1 + 2)..(Len(s) - 1) :
    /\ s[p1] = "." /\ s[p2] = "."
    /\ s[p1 - 1] \in Digit /\ s[p2 + 1] \in Digit
    /\ \A k \in (p1 + 1)..(p2 - 1) : s[k] \in Digit

\* C14: ParseSemVer returns a SemVer or an error for every text, and an
\* error, not a crash, for a text without a <digits>.<digits>.<digits> core.
C14_ParseTotal ==
  fnPc = "parsed" =>
    /\ fnOut.kind \in {"ok", "error"}
    /\ ~HasCore(fnIn) => fnOut.kind = "error"

====
